---- MODULE Spec2Model ----
(***************************************************************************)
(* A model of the FX forward-curve builders (FXDataFetcher,                *)
(* FXDataSimulator) and of HedgingAnalyzer.                                *)
(*                                                                         *)
(* Numbers.  The program computes in binary floating point and rounds with *)
(* Python's round().  The model computes the same expressions exactly, on  *)
(* scaled integers, and rounds half-to-even where the code calls round():  *)
(*   interest rates      in units of 1/RateScale     (0.0450 is 450)       *)
(*   spot, forward rates in units of 1/PriceScale    (1.4320 is 143200)    *)
(*   forward points      in units of 1/PointsScale pip (-52.0 is -5200)    *)
(*   scenario spots      in units of 1/ScenScale     (1.3200 is 13200000)  *)
(*   notional            in whole currency units                           *)
(*   hedge ratio         in units of 1/RatioScale    (0.75 is 75)          *)
(*   amounts, P&L        in units of 1/RatioScale    (cents)               *)
(* Products are wider than TLC's 32-bit integers, so every quotient        *)
(* a*n/d is kept as a pair <<q, r>> with a*n = q*d + r and 0 <= r < d.     *)
(* Floating-point representation error (below 1e-15 relative) is not part  *)
(* of the model.  It decides the code's result only where the exact value  *)
(* lies halfway between two neighbours of the rounding grid: there the     *)
(* code returns one of the two neighbours and the model the even one.  The *)
(* builders' inputs below have no such value; the analyzer's have some,    *)
(* and the properties of rounded analyzer outputs accept either neighbour. *)
(***************************************************************************)
EXTENDS Integers, Sequences, FiniteSets, TLC

VARIABLES today, analyzer, call, ret

vars == <<today, analyzer, call, ret>>

(***************************************************************************)
(* Scales of the fixed-point representation.                               *)
(***************************************************************************)
RateScale == 10000
Round4Scale == 10000
(* Spot rates carry one more decimal than round(x, 4) keeps. *)
PriceScale == 10 * Round4Scale
PointsScale == 100
PipsFactor == 10000
RatioScale == 100
Percent == 100
Round2Scale == 100
(* Scenario spots carry the two decimals that the factors 0.90 .. 1.10 add. *)
ScenScale == 100 * PriceScale
DaysPerYear == 365

(* Last day the model's clock reaches. *)
MaxDay == 1

(* Longest list of scenario spots passed to scenario_analysis. *)
MaxScenarios == 2

(***************************************************************************)
(* Exact arithmetic.                                                       *)
(***************************************************************************)
Abs(x) == IF x < 0 THEN -x ELSE x

Sgn(x) == IF x < 0 THEN -1 ELSE IF x > 0 THEN 1 ELSE 0

RECURSIVE MulDivQR(_, _, _)
(* <<q, r>> with a*n = q*d + r and 0 <= r < d, for a >= 0, n >= 0, d > 0,  *)
(* by binary expansion of a so that no intermediate exceeds 2*d + n; the    *)
(* product is formed directly once it fits in 31 bits.                     *)
MulDivQR(a, n, d) ==
    IF n = 0 \/ a <= 2147483647 \div n THEN <<(a * n) \div d, (a * n) % d>>
    ELSE LET h  == MulDivQR(a \div 2, n, d)
             dq == 2 * h[1] + ((2 * h[2]) \div d)
             dr == (2 * h[2]) % d
         IN  IF a % 2 = 0 THEN <<dq, dr>>
             ELSE <<dq + (n \div d) + ((dr + (n % d)) \div d), (dr + (n % d)) % d>>

(* The signed product a*n over d as floor quotient and remainder. *)
QR(a, n, d) ==
    LET m == MulDivQR(Abs(a), Abs(n), d)
    IN  IF (a < 0) = (n < 0) \/ a = 0 \/ n = 0 THEN m
        ELSE IF m[2] = 0 THEN <<-m[1], 0>>
        ELSE <<-m[1] - 1, d - m[2]>>

(* The sum of two quotients over the same d. *)
QRAdd(x, y, d) == <<x[1] + y[1] + ((x[2] + y[2]) \div d), (x[2] + y[2]) % d>>

(* round(): the nearest integer to q + r/d, a tie going to the even one. *)
RoundHalfEven(x, d) ==
    IF 2 * x[2] < d THEN x[1]
    ELSE IF 2 * x[2] > d THEN x[1] + 1
    ELSE IF x[1] % 2 = 0 THEN x[1] ELSE x[1] + 1

(***************************************************************************)
(* calculate_forward_rate, one definition per class.  The result is        *)
(* [status, value]: value is the forward rate in units of 1/PriceScale, a  *)
(* multiple of PriceScale/Round4Scale after round(forward_rate, 4).        *)
(*   t = days/365;  spot * ((1 + dom*t) / (1 + for*t))                     *)
(*     = spot * (365*RateScale + dom*days) / (365*RateScale + for*days)    *)
(* A zero denominator is Python's ZeroDivisionError.                       *)
(***************************************************************************)
Round4Step == PriceScale \div Round4Scale

Ok(v) == [status |-> "ok", value |-> v]
Raise(e) == [status |-> e, value |-> 0]

(* Faulty variants of FXDataFetcher.calculate_forward_rate, against which   *)
(* the properties below are tested: round(forward_rate, 2); the two rates  *)
(* exchanged; a 360-day year.                                              *)
Fetcher_calculate_forward_rate_Round2(spot_rate, domestic_rate, foreign_rate, days) ==
    LET num == DaysPerYear * RateScale + domestic_rate * days
        den == DaysPerYear * RateScale + foreign_rate * days
    IN  IF den = 0 THEN Raise("ZeroDivisionError")
        ELSE LET forward_rate == QR(spot_rate * Sgn(den), num, Abs(den) * Round4Step)
                 q   == forward_rate[1] \div 100
                 rem == forward_rate[1] % 100
                 up  == \/ rem > 50
                        \/ rem = 50 /\ forward_rate[2] > 0
                        \/ rem = 50 /\ forward_rate[2] = 0 /\ q % 2 = 1
             IN  Ok((IF up THEN q + 1 ELSE q) * 100 * Round4Step)

Fetcher_calculate_forward_rate_Swapped(spot_rate, domestic_rate, foreign_rate, days) ==
    LET num == DaysPerYear * RateScale + foreign_rate * days
        den == DaysPerYear * RateScale + domestic_rate * days
    IN  IF den = 0 THEN Raise("ZeroDivisionError")
        ELSE LET forward_rate == QR(spot_rate * Sgn(den), num, Abs(den) * Round4Step)
             IN  Ok(RoundHalfEven(forward_rate, Abs(den) * Round4Step) * Round4Step)

Fetcher_calculate_forward_rate_Days360(spot_rate, domestic_rate, foreign_rate, days) ==
    LET num == 360 * RateScale + domestic_rate * days
        den == 360 * RateScale + foreign_rate * days
    IN  IF den = 0 THEN Raise("ZeroDivisionError")
        ELSE LET forward_rate == QR(spot_rate * Sgn(den), num, Abs(den) * Round4Step)
             IN  Ok(RoundHalfEven(forward_rate, Abs(den) * Round4Step) * Round4Step)

Fetcher_calculate_forward_rate(spot_rate, domestic_rate, foreign_rate, days) ==
    LET num == DaysPerYear * RateScale + domestic_rate * days
        den == DaysPerYear * RateScale + foreign_rate * days
    IN  IF den = 0 THEN Raise("ZeroDivisionError")
        ELSE LET forward_rate == QR(spot_rate * Sgn(den), num, Abs(den) * Round4Step)
             IN  Ok(RoundHalfEven(forward_rate, Abs(den) * Round4Step) * Round4Step)

Simulator_calculate_forward_rate(spot_rate, domestic_rate, foreign_rate, days) ==
    LET num == DaysPerYear * RateScale + domestic_rate * days
        den == DaysPerYear * RateScale + foreign_rate * days
    IN  IF den = 0 THEN Raise("ZeroDivisionError")
        ELSE LET forward_rate == QR(spot_rate * Sgn(den), num, Abs(den) * Round4Step)
             IN  Ok(RoundHalfEven(forward_rate, Abs(den) * Round4Step) * Round4Step)

(***************************************************************************)
(* Strings that the code takes apart are sequences of tokens: a currency   *)
(* pair 'USD/CAD' is <<"USD", "/", "CAD">>.  Split is str.split(sep): the  *)
(* segments between the separators, each a sequence of tokens.             *)
(***************************************************************************)
RECURSIVE FirstSep(_, _, _)
(* Index of the first sep in s at or after i, or 0 when there is none. *)
FirstSep(s, sep, i) ==
    IF i > Len(s) THEN 0
    ELSE IF s[i] = sep THEN i
    ELSE FirstSep(s, sep, i + 1)

RECURSIVE Split(_, _)
Split(s, sep) ==
    LET k == FirstSep(s, sep, 1)
    IN  IF k = 0 THEN <<s>>
        ELSE <<SubSeq(s, 1, k - 1)>> \o Split(SubSeq(s, k + 1, Len(s)), sep)

Ccy(code) == <<code>>

(* self.interest_rates of each class, in units of 1/RateScale. *)
Fetcher_interest_rates ==
    (Ccy("USD") :> 450) @@ (Ccy("EUR") :> 300) @@ (Ccy("GBP") :> 475) @@
    (Ccy("JPY") :> 10) @@ (Ccy("CAD") :> 375) @@ (Ccy("AUD") :> 400) @@
    (Ccy("CHF") :> 125)

(* A faulty simulator table: GBP left at 4.50% when the fetcher has 4.75%. *)
Simulator_interest_rates_Stale ==
    (Ccy("USD") :> 450) @@ (Ccy("EUR") :> 300) @@ (Ccy("GBP") :> 450) @@
    (Ccy("JPY") :> 10) @@ (Ccy("CAD") :> 375) @@ (Ccy("AUD") :> 400) @@
    (Ccy("CHF") :> 125)

Simulator_interest_rates ==
    (Ccy("USD") :> 450) @@ (Ccy("EUR") :> 300) @@ (Ccy("GBP") :> 475) @@
    (Ccy("JPY") :> 10) @@ (Ccy("CAD") :> 375) @@ (Ccy("AUD") :> 400) @@
    (Ccy("CHF") :> 125)

(* A faulty tenors dict: '2M' and '3M' entered in the other order. *)
Simulator_tenors_Reordered ==
    << <<"Spot", 0>>, <<"1W", 7>>, <<"1M", 30>>, <<"3M", 90>>,
       <<"2M", 60>>, <<"6M", 180>>, <<"9M", 270>>, <<"1Y", 365>> >>

(* The tenors dict, in insertion order, which is its iteration order. *)
Fetcher_tenors ==
    << <<"Spot", 0>>, <<"1W", 7>>, <<"1M", 30>>, <<"2M", 60>>,
       <<"3M", 90>>, <<"6M", 180>>, <<"9M", 270>>, <<"1Y", 365>> >>

Simulator_tenors ==
    << <<"Spot", 0>>, <<"1W", 7>>, <<"1M", 30>>, <<"2M", 60>>,
       <<"3M", 90>>, <<"6M", 180>>, <<"9M", 270>>, <<"1Y", 365>> >>

(* round((forward_rate - spot_rate) * 10000, 2), in 1/PointsScale pips. *)
ForwardPoints(forward_rate, spot_rate) ==
    RoundHalfEven(QR(forward_rate - spot_rate, PipsFactor * PointsScale, PriceScale),
                  PriceScale)

(* A faulty direction rule: the branches of the test on quote_ccy exchanged. *)
Simulator_row_rates_Swapped(base_ccy, quote_ccy) ==
    IF quote_ccy # Ccy("USD")
    THEN IF Ccy("USD") \notin DOMAIN Simulator_interest_rates THEN Raise("KeyError")
         ELSE IF base_ccy \notin DOMAIN Simulator_interest_rates THEN Raise("KeyError")
         ELSE Ok([domestic_rate |-> Simulator_interest_rates[Ccy("USD")],
                  foreign_rate  |-> Simulator_interest_rates[base_ccy]])
    ELSE IF quote_ccy \notin DOMAIN Simulator_interest_rates THEN Raise("KeyError")
         ELSE IF Ccy("USD") \notin DOMAIN Simulator_interest_rates THEN Raise("KeyError")
         ELSE Ok([domestic_rate |-> Simulator_interest_rates[quote_ccy],
                  foreign_rate  |-> Simulator_interest_rates[Ccy("USD")]])

(***************************************************************************)
(* The domestic and foreign rate of a non-Spot row: a dict lookup of a     *)
(* missing key raises KeyError.  The lookups are made in the code's order. *)
(***************************************************************************)
Fetcher_row_rates(base_ccy, quote_ccy) ==
    IF quote_ccy = Ccy("USD")
    THEN IF Ccy("USD") \notin DOMAIN Fetcher_interest_rates THEN Raise("KeyError")
         ELSE IF base_ccy \notin DOMAIN Fetcher_interest_rates THEN Raise("KeyError")
         ELSE Ok([domestic_rate |-> Fetcher_interest_rates[Ccy("USD")],
                  foreign_rate  |-> Fetcher_interest_rates[base_ccy]])
    ELSE IF quote_ccy \notin DOMAIN Fetcher_interest_rates THEN Raise("KeyError")
         ELSE IF Ccy("USD") \notin DOMAIN Fetcher_interest_rates THEN Raise("KeyError")
         ELSE Ok([domestic_rate |-> Fetcher_interest_rates[quote_ccy],
                  foreign_rate  |-> Fetcher_interest_rates[Ccy("USD")]])

Simulator_row_rates(base_ccy, quote_ccy) ==
    IF quote_ccy = Ccy("USD")
    THEN IF Ccy("USD") \notin DOMAIN Simulator_interest_rates THEN Raise("KeyError")
         ELSE IF base_ccy \notin DOMAIN Simulator_interest_rates THEN Raise("KeyError")
         ELSE Ok([domestic_rate |-> Simulator_interest_rates[Ccy("USD")],
                  foreign_rate  |-> Simulator_interest_rates[base_ccy]])
    ELSE IF quote_ccy \notin DOMAIN Simulator_interest_rates THEN Raise("KeyError")
         ELSE IF Ccy("USD") \notin DOMAIN Simulator_interest_rates THEN Raise("KeyError")
         ELSE Ok([domestic_rate |-> Simulator_interest_rates[quote_ccy],
                  foreign_rate  |-> Simulator_interest_rates[Ccy("USD")]])

(* A faulty loop body: no separate case for days == 0, so the Spot row     *)
(* goes through calculate_forward_rate and its rounding.                   *)
Fetcher_row_NoSpotCase(pair, spot_rate, base_ccy, quote_ccy, tenor_name, days, now) ==
    LET rates == Fetcher_row_rates(base_ccy, quote_ccy)
    IN  IF rates.status # "ok" THEN rates
        ELSE LET f == Fetcher_calculate_forward_rate(spot_rate,
                          rates.value.domestic_rate, rates.value.foreign_rate, days)
             IN  IF f.status # "ok" THEN f
                 ELSE Ok([Pair |-> pair, Tenor |-> tenor_name, Days |-> days,
                          Forward_Rate |-> f.value,
                          Forward_Points |-> ForwardPoints(f.value, spot_rate),
                          Settlement_Date |-> now + days])

(***************************************************************************)
(* One iteration of the loop over tenors: the row appended to              *)
(* forward_data, or the exception that ends the call.  now is the date     *)
(* datetime.now() returns in this iteration, as a day number;              *)
(* Settlement_Date is the day number of now + timedelta(days).             *)
(***************************************************************************)
Fetcher_row(pair, spot_rate, base_ccy, quote_ccy, tenor_name, days, now) ==
    IF days = 0
    THEN Ok([Pair |-> pair, Tenor |-> tenor_name, Days |-> days,
             Forward_Rate |-> spot_rate, Forward_Points |-> 0,
             Settlement_Date |-> now + days])
    ELSE LET rates == Fetcher_row_rates(base_ccy, quote_ccy)
         IN  IF rates.status # "ok" THEN rates
             ELSE LET f == Fetcher_calculate_forward_rate(spot_rate,
                               rates.value.domestic_rate, rates.value.foreign_rate, days)
                  IN  IF f.status # "ok" THEN f
                      ELSE Ok([Pair |-> pair, Tenor |-> tenor_name, Days |-> days,
                               Forward_Rate |-> f.value,
                               Forward_Points |-> ForwardPoints(f.value, spot_rate),
                               Settlement_Date |-> now + days])

Simulator_row(pair, spot_rate, base_ccy, quote_ccy, tenor_name, days, now) ==
    IF days = 0
    THEN Ok([Pair |-> pair, Tenor |-> tenor_name, Days |-> days,
             Forward_Rate |-> spot_rate, Forward_Points |-> 0,
             Settlement_Date |-> now + days])
    ELSE LET rates == Simulator_row_rates(base_ccy, quote_ccy)
         IN  IF rates.status # "ok" THEN rates
             ELSE LET f == Simulator_calculate_forward_rate(spot_rate,
                               rates.value.domestic_rate, rates.value.foreign_rate, days)
                  IN  IF f.status # "ok" THEN f
                      ELSE Ok([Pair |-> pair, Tenor |-> tenor_name, Days |-> days,
                               Forward_Rate |-> f.value,
                               Forward_Points |-> ForwardPoints(f.value, spot_rate),
                               Settlement_Date |-> now + days])

(***************************************************************************)
(* build_forward_curve(pair, spot_rate).  nows[i] is the date of the i-th  *)
(* call of datetime.now().  pair.split('/')[1] raises IndexError when the  *)
(* pair has no '/'.  The first iteration that raises ends the call;        *)
(* otherwise the DataFrame is the sequence of the rows, in loop order.     *)
(***************************************************************************)
Fetcher_build_forward_curve(pair, spot_rate, nows) ==
    LET parts == Split(pair, "/")
    IN  IF Len(parts) < 2 THEN Raise("IndexError")
        ELSE LET base_ccy  == parts[1]
                 quote_ccy == parts[2]
                 rows == [i \in 1..Len(Fetcher_tenors) |->
                            Fetcher_row(pair, spot_rate, base_ccy, quote_ccy,
                                        Fetcher_tenors[i][1], Fetcher_tenors[i][2], nows[i])]
                 failed == {i \in DOMAIN rows : rows[i].status # "ok"}
             IN  IF failed # {}
                 THEN rows[CHOOSE i \in failed : \A j \in failed : i <= j]
                 ELSE Ok([i \in DOMAIN rows |-> rows[i].value])

Simulator_build_forward_curve(pair, spot_rate, nows) ==
    LET parts == Split(pair, "/")
    IN  IF Len(parts) < 2 THEN Raise("IndexError")
        ELSE LET base_ccy  == parts[1]
                 quote_ccy == parts[2]
                 rows == [i \in 1..Len(Simulator_tenors) |->
                            Simulator_row(pair, spot_rate, base_ccy, quote_ccy,
                                          Simulator_tenors[i][1], Simulator_tenors[i][2], nows[i])]
                 failed == {i \in DOMAIN rows : rows[i].status # "ok"}
             IN  IF failed # {}
                 THEN rows[CHOOSE i \in failed : \A j \in failed : i <= j]
                 ELSE Ok([i \in DOMAIN rows |-> rows[i].value])

(***************************************************************************)
(* Inputs.                                                                 *)
(***************************************************************************)
(* Spot rates 1.4320, 1.0545, 1.23456, 1.23454 and 0.0067. *)
Spots == {143200, 105450, 123456, 123454, 670}

(* Annual rates 4.50%, 3.75%, 4.75%, 0.10%, -100% and -200%. *)
Rates == {450, 375, 475, 10, -10000, -20000}

DaysArgs == {0, 1, 30, 180, 365}

Pair(base, quote) == <<base, "/", quote>>

Pairs ==
    { Pair("USD", "CAD"), Pair("EUR", "USD"), Pair("GBP", "USD"), Pair("EUR", "GBP"),
      Pair("MXN", "CAD"), Pair("USD", "MXN"), Pair("MXN", "USD"), <<"USD", "CAD">> }

NoAnalyzer == [constructed |-> FALSE]

NoCall == [status |-> "pending", value |-> 0]

(***************************************************************************)
(* The two builder classes.  A call with its arguments is pending in       *)
(* call; the step of the method it names returns its result in ret.        *)
(* build_forward_curve reads the clock once per row; midnight may pass     *)
(* between two reads, so the rows from the k-th on may carry the next day  *)
(* (k one past the last row: midnight does not pass during the call).      *)
(***************************************************************************)
RateCalls ==
    [op : {"calculate_forward_rate"}, cls : {"FXDataFetcher", "FXDataSimulator"},
     spot_rate : Spots, domestic_rate : Rates, foreign_rate : Rates, days : DaysArgs]

CurveCalls ==
    [op : {"build_forward_curve"}, cls : {"FXDataFetcher", "FXDataSimulator"},
     pair : Pairs, spot_rate : Spots]

Nows(n, k) == [i \in 1..n |-> IF i < k THEN today ELSE today + 1]

InitBuilder ==
    /\ today = 0
    /\ analyzer = NoAnalyzer
    /\ call \in RateCalls \cup CurveCalls
    /\ ret = NoCall

Tick ==
    /\ today < MaxDay
    /\ today' = today + 1
    /\ UNCHANGED <<analyzer, call, ret>>

FetcherCalculateForwardRate ==
    /\ call.op = "calculate_forward_rate"
    /\ call.cls = "FXDataFetcher"
    /\ ret = NoCall
    /\ ret' = Fetcher_calculate_forward_rate(call.spot_rate, call.domestic_rate,
                                             call.foreign_rate, call.days)
    /\ UNCHANGED <<today, analyzer, call>>

SimulatorCalculateForwardRate ==
    /\ call.op = "calculate_forward_rate"
    /\ call.cls = "FXDataSimulator"
    /\ ret = NoCall
    /\ ret' = Simulator_calculate_forward_rate(call.spot_rate, call.domestic_rate,
                                               call.foreign_rate, call.days)
    /\ UNCHANGED <<today, analyzer, call>>

FetcherBuildForwardCurve ==
    /\ call.op = "build_forward_curve"
    /\ call.cls = "FXDataFetcher"
    /\ ret = NoCall
    /\ \E k \in 1..(Len(Fetcher_tenors) + 1) :
        /\ k <= Len(Fetcher_tenors) => today < MaxDay
        /\ ret' = Fetcher_build_forward_curve(call.pair, call.spot_rate,
                                              Nows(Len(Fetcher_tenors), k))
        /\ today' = IF k <= Len(Fetcher_tenors) THEN today + 1 ELSE today
    /\ UNCHANGED <<analyzer, call>>

SimulatorBuildForwardCurve ==
    /\ call.op = "build_forward_curve"
    /\ call.cls = "FXDataSimulator"
    /\ ret = NoCall
    /\ \E k \in 1..(Len(Simulator_tenors) + 1) :
        /\ k <= Len(Simulator_tenors) => today < MaxDay
        /\ ret' = Simulator_build_forward_curve(call.pair, call.spot_rate,
                                                Nows(Len(Simulator_tenors), k))
        /\ today' = IF k <= Len(Simulator_tenors) THEN today + 1 ELSE today
    /\ UNCHANGED <<analyzer, call>>

NextBuilder ==
    \/ FetcherCalculateForwardRate
    \/ SimulatorCalculateForwardRate
    \/ FetcherBuildForwardCurve
    \/ SimulatorBuildForwardCurve
    \/ Tick

SpecBuilder == InitBuilder /\ [][NextBuilder]_vars

(***************************************************************************)
(* HedgingAnalyzer.  A DataFrame is the sequence of its rows; df[mask] is  *)
(* SelectSeq, and .iloc[0] of an empty selection raises IndexError.        *)
(***************************************************************************)
HedgingAnalyzer_init(forward_curve) ==
    [constructed |-> TRUE, forward_curve |-> forward_curve, pair |-> forward_curve[1].Pair]

(* The sample curve of the module's own example, settling from day 0. *)
sample_curve ==
    LET Tenor == <<"Spot", "1W", "1M", "2M", "3M", "6M", "9M", "1Y">>
        Days  == <<0, 7, 30, 60, 90, 180, 270, 365>>
        Forward_Rate ==
            <<134500, 134550, 134680, 134850, 135020, 135500, 135980, 136450>>
        Forward_Points == <<0, 500, 1800, 3500, 5200, 10000, 14800, 19500>>
    IN  [i \in 1..8 |->
            [Pair |-> Pair("USD", "CAD"), Tenor |-> Tenor[i], Days |-> Days[i],
             Forward_Rate |-> Forward_Rate[i], Forward_Points |-> Forward_Points[i],
             Settlement_Date |-> 0 + Days[i]]]

(* A faulty calculate_hedge_cost: hedge_ratio clamped into [0, 1]. *)
calculate_hedge_cost_Clamped(self, notional, tenor, hedge_ratio) ==
    LET IsTenor(row) == row.Tenor = tenor
        IsSpot(row)  == row.Tenor = "Spot"
        tenor_data == SelectSeq(self.forward_curve, IsTenor)
        spot_data  == SelectSeq(self.forward_curve, IsSpot)
        clamped == IF hedge_ratio < 0 THEN 0
                   ELSE IF hedge_ratio > RatioScale THEN RatioScale ELSE hedge_ratio
    IN  IF tenor_data = <<>> THEN Raise("ValueError")
        ELSE IF spot_data = <<>> THEN Raise("IndexError")
        ELSE LET forward_rate == tenor_data[1].Forward_Rate
                 spot_rate    == spot_data[1].Forward_Rate
                 premium_discount ==
                     QR((forward_rate - spot_rate) * Sgn(spot_rate),
                        Percent * Round4Scale, Abs(spot_rate))
             IN  Ok([Pair |-> self.pair,
                     Notional |-> notional,
                     Hedge_Ratio |-> hedge_ratio,
                     Hedged_Amount |-> notional * clamped,
                     Unhedged_Amount |-> notional * (RatioScale - clamped),
                     Tenor |-> tenor,
                     Settlement_Date |-> tenor_data[1].Settlement_Date,
                     Spot_Rate |-> spot_rate,
                     Forward_Rate |-> forward_rate,
                     Forward_Points |-> tenor_data[1].Forward_Points,
                     Premium_Discount_pct |-> RoundHalfEven(premium_discount, Abs(spot_rate)),
                     Locked_In_Rate |-> forward_rate])

(* A faulty calculate_hedge_cost: the tenor matched without regard to case. *)
calculate_hedge_cost_AnyCase(self, notional, tenor, hedge_ratio) ==
    LET Upper(t) == IF t = "6m" THEN "6M" ELSE t
        IsTenor(row) == row.Tenor = Upper(tenor)
        IsSpot(row)  == row.Tenor = "Spot"
        tenor_data == SelectSeq(self.forward_curve, IsTenor)
        spot_data  == SelectSeq(self.forward_curve, IsSpot)
    IN  IF tenor_data = <<>> THEN Raise("ValueError")
        ELSE IF spot_data = <<>> THEN Raise("IndexError")
        ELSE LET forward_rate == tenor_data[1].Forward_Rate
                 spot_rate    == spot_data[1].Forward_Rate
                 premium_discount ==
                     QR((forward_rate - spot_rate) * Sgn(spot_rate),
                        Percent * Round4Scale, Abs(spot_rate))
             IN  Ok([Pair |-> self.pair,
                     Notional |-> notional,
                     Hedge_Ratio |-> hedge_ratio,
                     Hedged_Amount |-> notional * hedge_ratio,
                     Unhedged_Amount |-> notional * (RatioScale - hedge_ratio),
                     Tenor |-> tenor,
                     Settlement_Date |-> tenor_data[1].Settlement_Date,
                     Spot_Rate |-> spot_rate,
                     Forward_Rate |-> forward_rate,
                     Forward_Points |-> tenor_data[1].Forward_Points,
                     Premium_Discount_pct |-> RoundHalfEven(premium_discount, Abs(spot_rate)),
                     Locked_In_Rate |-> forward_rate])

(* A faulty calculate_hedge_cost: the premium taken relative to the forward. *)
calculate_hedge_cost_PremiumOnForward(self, notional, tenor, hedge_ratio) ==
    LET IsTenor(row) == row.Tenor = tenor
        IsSpot(row)  == row.Tenor = "Spot"
        tenor_data == SelectSeq(self.forward_curve, IsTenor)
        spot_data  == SelectSeq(self.forward_curve, IsSpot)
    IN  IF tenor_data = <<>> THEN Raise("ValueError")
        ELSE IF spot_data = <<>> THEN Raise("IndexError")
        ELSE LET forward_rate == tenor_data[1].Forward_Rate
                 spot_rate    == spot_data[1].Forward_Rate
                 premium_discount ==
                     QR((forward_rate - spot_rate) * Sgn(forward_rate),
                        Percent * Round4Scale, Abs(forward_rate))
             IN  Ok([Pair |-> self.pair,
                     Notional |-> notional,
                     Hedge_Ratio |-> hedge_ratio,
                     Hedged_Amount |-> notional * hedge_ratio,
                     Unhedged_Amount |-> notional * (RatioScale - hedge_ratio),
                     Tenor |-> tenor,
                     Settlement_Date |-> tenor_data[1].Settlement_Date,
                     Spot_Rate |-> spot_rate,
                     Forward_Rate |-> forward_rate,
                     Forward_Points |-> tenor_data[1].Forward_Points,
                     Premium_Discount_pct |-> RoundHalfEven(premium_discount, Abs(forward_rate)),
                     Locked_In_Rate |-> forward_rate])

(***************************************************************************)
(* calculate_hedge_cost(notional, tenor, hedge_ratio).  Amounts are in     *)
(* units of 1/RatioScale; Premium_Discount_pct, rounded to 4 decimals, in  *)
(* units of 1/Round4Scale percent.  The curves of this model have a        *)
(* positive spot, so the division by spot_rate is defined.                 *)
(***************************************************************************)
calculate_hedge_cost(self, notional, tenor, hedge_ratio) ==
    LET IsTenor(row) == row.Tenor = tenor
        IsSpot(row)  == row.Tenor = "Spot"
        tenor_data == SelectSeq(self.forward_curve, IsTenor)
        spot_data  == SelectSeq(self.forward_curve, IsSpot)
    IN  IF tenor_data = <<>> THEN Raise("ValueError")
        ELSE IF spot_data = <<>> THEN Raise("IndexError")
        ELSE LET forward_rate == tenor_data[1].Forward_Rate
                 spot_rate    == spot_data[1].Forward_Rate
                 premium_discount ==
                     QR((forward_rate - spot_rate) * Sgn(spot_rate),
                        Percent * Round4Scale, Abs(spot_rate))
             IN  Ok([Pair |-> self.pair,
                     Notional |-> notional,
                     Hedge_Ratio |-> hedge_ratio,
                     Hedged_Amount |-> notional * hedge_ratio,
                     Unhedged_Amount |-> notional * (RatioScale - hedge_ratio),
                     Tenor |-> tenor,
                     Settlement_Date |-> tenor_data[1].Settlement_Date,
                     Spot_Rate |-> spot_rate,
                     Forward_Rate |-> forward_rate,
                     Forward_Points |-> tenor_data[1].Forward_Points,
                     Premium_Discount_pct |-> RoundHalfEven(premium_discount, Abs(spot_rate)),
                     Locked_In_Rate |-> forward_rate])

(***************************************************************************)
(* scenario_analysis(notional, tenor, hedge_ratio, spot_scenarios).  The   *)
(* argument spot_scenarios is None or a list; scenario spots are in units  *)
(* of 1/ScenScale.  P&L, rounded to 2 decimals, is in units of 1/100;      *)
(* Spot_Change_pct in units of 1/100 percent; Future_Spot and              *)
(* Effective_Rate, rounded to 4 decimals, in units of 1/PriceScale.        *)
(***************************************************************************)
None == [is_none |-> TRUE, list |-> <<>>]

Some(list) == [is_none |-> FALSE, list |-> list]

ScenStep == ScenScale \div PriceScale

(* Faulty defaults: 0.10 and 0.05 taken off and added on, not 10% and 5%. *)
default_scenarios_Additive(current_spot) ==
    << current_spot * ScenStep - ScenScale \div 10,
       current_spot * ScenStep - ScenScale \div 20,
       current_spot * ScenStep,
       current_spot * ScenStep + ScenScale \div 20,
       current_spot * ScenStep + ScenScale \div 10 >>

(* current_spot * 0.90, * 0.95, current_spot, * 1.05, * 1.10 *)
default_scenarios(current_spot) ==
    << (current_spot * ScenStep * 90) \div Percent,
       (current_spot * ScenStep * 95) \div Percent,
       current_spot * ScenStep,
       (current_spot * ScenStep * 105) \div Percent,
       (current_spot * ScenStep * 110) \div Percent >>

(* round(x, 4) of a scenario-scaled x, in units of 1/PriceScale. *)
RoundScen4(x) ==
    RoundHalfEven(x, ScenScale \div Round4Scale) * Round4Step

(* A faulty loop body: the hedged slice valued against current_spot. *)
scenario_row_HedgedAtSpot(hedge_info, notional, hedge_ratio, future_spot) ==
    LET forward_rate == hedge_info.Forward_Rate * ScenStep
        current_spot == hedge_info.Spot_Rate * ScenStep
        hedged_pnl   == QR(hedge_info.Hedged_Amount, future_spot - current_spot, ScenScale)
        unhedged_pnl == QR(hedge_info.Unhedged_Amount, future_spot - current_spot, ScenScale)
        total_pnl    == QRAdd(hedged_pnl, unhedged_pnl, ScenScale)
        rate_den     == RatioScale * (ScenScale \div Round4Scale)
        effective_rate ==
            IF notional > 0
            THEN RoundHalfEven(QRAdd(QR(forward_rate, hedge_ratio, rate_den),
                                     QR(future_spot, RatioScale - hedge_ratio, rate_den),
                                     rate_den), rate_den) * Round4Step
            ELSE RoundScen4(QR(future_spot, 1, ScenScale \div Round4Scale))
        spot_change_pct ==
            QR((future_spot - current_spot) * Sgn(current_spot),
               Percent * Round2Scale, Abs(current_spot))
    IN  [Future_Spot |-> RoundScen4(QR(future_spot, 1, ScenScale \div Round4Scale)),
         Spot_Change_pct |-> RoundHalfEven(spot_change_pct, Abs(current_spot)),
         Hedged_PnL |-> RoundHalfEven(hedged_pnl, ScenScale),
         Unhedged_PnL |-> RoundHalfEven(unhedged_pnl, ScenScale),
         Total_PnL |-> RoundHalfEven(total_pnl, ScenScale),
         Effective_Rate |-> effective_rate]

(* A faulty loop body: the unhedged slice valued on the whole notional. *)
scenario_row_UnhedgedOnNotional(hedge_info, notional, hedge_ratio, future_spot) ==
    LET forward_rate == hedge_info.Forward_Rate * ScenStep
        current_spot == hedge_info.Spot_Rate * ScenStep
        hedged_pnl   == QR(hedge_info.Hedged_Amount, future_spot - forward_rate, ScenScale)
        unhedged_pnl == QR(notional * RatioScale, future_spot - current_spot, ScenScale)
        total_pnl    == QRAdd(hedged_pnl, unhedged_pnl, ScenScale)
        rate_den     == RatioScale * (ScenScale \div Round4Scale)
        effective_rate ==
            IF notional > 0
            THEN RoundHalfEven(QRAdd(QR(forward_rate, hedge_ratio, rate_den),
                                     QR(future_spot, RatioScale - hedge_ratio, rate_den),
                                     rate_den), rate_den) * Round4Step
            ELSE RoundScen4(QR(future_spot, 1, ScenScale \div Round4Scale))
        spot_change_pct ==
            QR((future_spot - current_spot) * Sgn(current_spot),
               Percent * Round2Scale, Abs(current_spot))
    IN  [Future_Spot |-> RoundScen4(QR(future_spot, 1, ScenScale \div Round4Scale)),
         Spot_Change_pct |-> RoundHalfEven(spot_change_pct, Abs(current_spot)),
         Hedged_PnL |-> RoundHalfEven(hedged_pnl, ScenScale),
         Unhedged_PnL |-> RoundHalfEven(unhedged_pnl, ScenScale),
         Total_PnL |-> RoundHalfEven(total_pnl, ScenScale),
         Effective_Rate |-> effective_rate]

(* A faulty loop body: the blended rate whatever the sign of notional. *)
scenario_row_NoNotionalGuard(hedge_info, notional, hedge_ratio, future_spot) ==
    LET forward_rate == hedge_info.Forward_Rate * ScenStep
        current_spot == hedge_info.Spot_Rate * ScenStep
        hedged_pnl   == QR(hedge_info.Hedged_Amount, future_spot - forward_rate, ScenScale)
        unhedged_pnl == QR(hedge_info.Unhedged_Amount, future_spot - current_spot, ScenScale)
        total_pnl    == QRAdd(hedged_pnl, unhedged_pnl, ScenScale)
        rate_den     == RatioScale * (ScenScale \div Round4Scale)
        effective_rate ==
            IF TRUE
            THEN RoundHalfEven(QRAdd(QR(forward_rate, hedge_ratio, rate_den),
                                     QR(future_spot, RatioScale - hedge_ratio, rate_den),
                                     rate_den), rate_den) * Round4Step
            ELSE RoundScen4(QR(future_spot, 1, ScenScale \div Round4Scale))
        spot_change_pct ==
            QR((future_spot - current_spot) * Sgn(current_spot),
               Percent * Round2Scale, Abs(current_spot))
    IN  [Future_Spot |-> RoundScen4(QR(future_spot, 1, ScenScale \div Round4Scale)),
         Spot_Change_pct |-> RoundHalfEven(spot_change_pct, Abs(current_spot)),
         Hedged_PnL |-> RoundHalfEven(hedged_pnl, ScenScale),
         Unhedged_PnL |-> RoundHalfEven(unhedged_pnl, ScenScale),
         Total_PnL |-> RoundHalfEven(total_pnl, ScenScale),
         Effective_Rate |-> effective_rate]

(* A faulty loop body: the total is the hedged less the unhedged P&L. *)
scenario_row_TotalIsDifference(hedge_info, notional, hedge_ratio, future_spot) ==
    LET forward_rate == hedge_info.Forward_Rate * ScenStep
        current_spot == hedge_info.Spot_Rate * ScenStep
        hedged_pnl   == QR(hedge_info.Hedged_Amount, future_spot - forward_rate, ScenScale)
        unhedged_pnl == QR(hedge_info.Unhedged_Amount, future_spot - current_spot, ScenScale)
        total_pnl    == QRAdd(hedged_pnl, QR(-hedge_info.Unhedged_Amount,
                                             future_spot - current_spot, ScenScale), ScenScale)
        rate_den     == RatioScale * (ScenScale \div Round4Scale)
        effective_rate ==
            IF notional > 0
            THEN RoundHalfEven(QRAdd(QR(forward_rate, hedge_ratio, rate_den),
                                     QR(future_spot, RatioScale - hedge_ratio, rate_den),
                                     rate_den), rate_den) * Round4Step
            ELSE RoundScen4(QR(future_spot, 1, ScenScale \div Round4Scale))
        spot_change_pct ==
            QR((future_spot - current_spot) * Sgn(current_spot),
               Percent * Round2Scale, Abs(current_spot))
    IN  [Future_Spot |-> RoundScen4(QR(future_spot, 1, ScenScale \div Round4Scale)),
         Spot_Change_pct |-> RoundHalfEven(spot_change_pct, Abs(current_spot)),
         Hedged_PnL |-> RoundHalfEven(hedged_pnl, ScenScale),
         Unhedged_PnL |-> RoundHalfEven(unhedged_pnl, ScenScale),
         Total_PnL |-> RoundHalfEven(total_pnl, ScenScale),
         Effective_Rate |-> effective_rate]

(* One iteration of the loop over spot_scenarios: the row appended. *)
scenario_row(hedge_info, notional, hedge_ratio, future_spot) ==
    LET forward_rate == hedge_info.Forward_Rate * ScenStep
        current_spot == hedge_info.Spot_Rate * ScenStep
        hedged_pnl   == QR(hedge_info.Hedged_Amount, future_spot - forward_rate, ScenScale)
        unhedged_pnl == QR(hedge_info.Unhedged_Amount, future_spot - current_spot, ScenScale)
        total_pnl    == QRAdd(hedged_pnl, unhedged_pnl, ScenScale)
        rate_den     == RatioScale * (ScenScale \div Round4Scale)
        effective_rate ==
            IF notional > 0
            THEN RoundHalfEven(QRAdd(QR(forward_rate, hedge_ratio, rate_den),
                                     QR(future_spot, RatioScale - hedge_ratio, rate_den),
                                     rate_den), rate_den) * Round4Step
            ELSE RoundScen4(QR(future_spot, 1, ScenScale \div Round4Scale))
        spot_change_pct ==
            QR((future_spot - current_spot) * Sgn(current_spot),
               Percent * Round2Scale, Abs(current_spot))
    IN  [Future_Spot |-> RoundScen4(QR(future_spot, 1, ScenScale \div Round4Scale)),
         Spot_Change_pct |-> RoundHalfEven(spot_change_pct, Abs(current_spot)),
         Hedged_PnL |-> RoundHalfEven(hedged_pnl, ScenScale),
         Unhedged_PnL |-> RoundHalfEven(unhedged_pnl, ScenScale),
         Total_PnL |-> RoundHalfEven(total_pnl, ScenScale),
         Effective_Rate |-> effective_rate]

(* A faulty scenario_analysis: "if not spot_scenarios", so that an empty    *)
(* list gets the defaults as None does.                                    *)
scenario_analysis_EmptyIsDefault(self, notional, tenor, hedge_ratio, spot_scenarios) ==
    LET hedge_info == calculate_hedge_cost(self, notional, tenor, hedge_ratio)
    IN  IF hedge_info.status # "ok" THEN hedge_info
        ELSE LET scenarios == IF spot_scenarios.is_none \/ spot_scenarios.list = <<>>
                              THEN default_scenarios(hedge_info.value.Spot_Rate)
                              ELSE spot_scenarios.list
             IN  Ok([i \in 1..Len(scenarios) |->
                        scenario_row(hedge_info.value, notional, hedge_ratio, scenarios[i])])

(* The call of calculate_hedge_cost, whose exception ends the call; the    *)
(* defaults when spot_scenarios is None; one row per scenario, in order.   *)
scenario_analysis(self, notional, tenor, hedge_ratio, spot_scenarios) ==
    LET hedge_info == calculate_hedge_cost(self, notional, tenor, hedge_ratio)
    IN  IF hedge_info.status # "ok" THEN hedge_info
        ELSE LET scenarios == IF spot_scenarios.is_none
                              THEN default_scenarios(hedge_info.value.Spot_Rate)
                              ELSE spot_scenarios.list
             IN  Ok([i \in 1..Len(scenarios) |->
                        scenario_row(hedge_info.value, notional, hedge_ratio, scenarios[i])])

(***************************************************************************)
(* compare_hedge_ratios(notional, tenor, future_spot).  A formatted string *)
(* is the sequence of its pieces; f"{int(x*100)}" truncates toward zero.   *)
(***************************************************************************)
hedge_ratios == <<0, 25, 50, 75, 100>>

(* int(ratio * 100): the whole percents of a ratio, truncated toward zero. *)
IntPercent(ratio) == Sgn(ratio) * ((Abs(ratio) * Percent) \div RatioScale)

(* f"{int(ratio*100)}%" *)
PercentLabel(ratio) == <<ToString(IntPercent(ratio)), "%">>

(* A faulty compare_hedge_ratios: every ratio valued on the default        *)
(* scenarios, of which the first row is taken.                             *)
compare_hedge_ratios_DefaultScenarios(self, notional, tenor, future_spot) ==
    LET dfs == [i \in DOMAIN hedge_ratios |->
                   scenario_analysis(self, notional, tenor, hedge_ratios[i], None)]
        failed == {i \in DOMAIN dfs : dfs[i].status # "ok"}
    IN  IF failed # {} THEN dfs[CHOOSE i \in failed : \A j \in failed : i <= j]
        ELSE Ok([i \in DOMAIN hedge_ratios |->
                    [Hedge_Ratio |-> PercentLabel(hedge_ratios[i]),
                     Hedged_Amount |-> notional * hedge_ratios[i],
                     Unhedged_Amount |-> notional * (RatioScale - hedge_ratios[i]),
                     Total_PnL |-> dfs[i].value[1].Total_PnL,
                     Effective_Rate |-> dfs[i].value[1].Effective_Rate]])

(* A faulty compare_hedge_ratios: the grid walked from 100% down to 0%. *)
compare_hedge_ratios_Descending(self, notional, tenor, future_spot) ==
    LET grid == [i \in DOMAIN hedge_ratios |-> hedge_ratios[Len(hedge_ratios) + 1 - i]]
        dfs == [i \in DOMAIN grid |->
                   scenario_analysis(self, notional, tenor, grid[i], Some(<<future_spot>>))]
        failed == {i \in DOMAIN dfs : dfs[i].status # "ok"}
    IN  IF failed # {} THEN dfs[CHOOSE i \in failed : \A j \in failed : i <= j]
        ELSE Ok([i \in DOMAIN grid |->
                    [Hedge_Ratio |-> PercentLabel(grid[i]),
                     Hedged_Amount |-> notional * grid[i],
                     Unhedged_Amount |-> notional * (RatioScale - grid[i]),
                     Total_PnL |-> dfs[i].value[1].Total_PnL,
                     Effective_Rate |-> dfs[i].value[1].Effective_Rate]])

(* The loop over hedge_ratios: the first scenario_analysis that raises     *)
(* ends the call; otherwise one summary row per ratio, in grid order.      *)
compare_hedge_ratios(self, notional, tenor, future_spot) ==
    LET dfs == [i \in DOMAIN hedge_ratios |->
                   scenario_analysis(self, notional, tenor, hedge_ratios[i],
                                     Some(<<future_spot>>))]
        failed == {i \in DOMAIN dfs : dfs[i].status # "ok"}
    IN  IF failed # {} THEN dfs[CHOOSE i \in failed : \A j \in failed : i <= j]
        ELSE Ok([i \in DOMAIN hedge_ratios |->
                    [Hedge_Ratio |-> PercentLabel(hedge_ratios[i]),
                     Hedged_Amount |-> notional * hedge_ratios[i],
                     Unhedged_Amount |-> notional * (RatioScale - hedge_ratios[i]),
                     Total_PnL |-> dfs[i].value[1].Total_PnL,
                     Effective_Rate |-> dfs[i].value[1].Effective_Rate]])

(***************************************************************************)
(* generate_hedge_recommendation(notional, tenor, market_view).  The       *)
(* market view is a string that the code takes apart by character: a       *)
(* sequence of one-character strings, on which lower() works letter by     *)
(* letter.                                                                 *)
(***************************************************************************)
UpperCase ==
    <<"A", "B", "C", "D", "E", "F", "G", "H", "I", "J", "K", "L", "M",
      "N", "O", "P", "Q", "R", "S", "T", "U", "V", "W", "X", "Y", "Z">>

LowerCase ==
    <<"a", "b", "c", "d", "e", "f", "g", "h", "i", "j", "k", "l", "m",
      "n", "o", "p", "q", "r", "s", "t", "u", "v", "w", "x", "y", "z">>

(* str.lower() *)
lower(str) ==
    [i \in DOMAIN str |->
        IF \E k \in DOMAIN UpperCase : UpperCase[k] = str[i]
        THEN LowerCase[CHOOSE k \in DOMAIN UpperCase : UpperCase[k] = str[i]]
        ELSE str[i]]

bullish == <<"b", "u", "l", "l", "i", "s", "h">>

bearish == <<"b", "e", "a", "r", "i", "s", "h">>

neutral == <<"n", "e", "u", "t", "r", "a", "l">>

(* A faulty rule: market_view compared as given, without lower(). *)
recommended_ratio_CaseSensitive(market_view) ==
    IF market_view = bullish THEN 50
    ELSE IF market_view = bearish THEN 100
    ELSE 75

(* The if / elif / else on market_view.lower(): recommended_ratio. *)
recommended_ratio(market_view) ==
    IF lower(market_view) = bullish THEN 50
    ELSE IF lower(market_view) = bearish THEN 100
    ELSE 75

(* The rationale of the branch taken; the base currency is                 *)
(* self.pair.split('/')[0].                                                *)
rationale(self, market_view) ==
    IF lower(market_view) = bullish
    THEN <<"With a bullish view on">> \o Split(self.pair, "/")[1]
             \o <<", consider a 50% hedge">>
    ELSE IF lower(market_view) = bearish
    THEN <<"With a bearish view on">> \o Split(self.pair, "/")[1]
             \o <<", consider a 100% hedge">>
    ELSE <<"With a neutral market view, consider a 75% hedge">>

(* f"{x:.2f}" of a percentage in 1/Round4Scale: its hundredths. *)
Format2f(x) ==
    RoundHalfEven(QR(x, 1, Round4Scale \div Round2Scale), Round4Scale \div Round2Scale)

(* f"{x:,.0f}" of an amount in 1/RatioScale: its whole units. *)
Format0f(x) == RoundHalfEven(QR(x, 1, RatioScale), RatioScale)

(* f"{x:.4f}" of a rate in 1/PriceScale, kept in 1/PriceScale. *)
Format4f(x) == RoundHalfEven(QR(x, 1, Round4Step), Round4Step) * Round4Step

(* The dict returned at lines 198-204, from the locals forward and         *)
(* hedge_details; self.pair.split('/')[1] raises IndexError for a pair     *)
(* without '/'.                                                            *)
recommendation(self, forward, hedge_details, tenor, market_view) ==
    LET ratio == recommended_ratio(market_view)
        parts == Split(self.pair, "/")
    IN  IF Len(parts) < 2 THEN Raise("IndexError")
        ELSE Ok([Recommendation |-> <<ToString(IntPercent(ratio)), "% Hedge Ratio">>,
                 Rationale |-> rationale(self, market_view),
                 Hedge_Details |-> hedge_details,
                 Forward_Premium_Discount |->
                     <<Format2f(hedge_details.Premium_Discount_pct), "%">>,
                 Action |-> <<"Enter FX Forward to sell",
                              Format0f(hedge_details.Hedged_Amount)>>
                            \o parts[1] \o <<"vs">> \o parts[2]
                            \o <<"at", Format4f(forward), "for", tenor, "settlement">>])

(* A faulty generate_hedge_recommendation: a tenor the curve lacks is       *)
(* answered with the recommendation and its rationale, without details.    *)
generate_hedge_recommendation_Partial(self, notional, tenor, market_view) ==
    LET hedge_info == calculate_hedge_cost(self, notional, tenor, RatioScale)
    IN  IF hedge_info.status # "ok"
        THEN Ok([Recommendation |->
                     <<ToString(IntPercent(recommended_ratio(market_view))), "% Hedge Ratio">>,
                 Rationale |-> rationale(self, market_view)])
        ELSE LET hedge_details ==
                     calculate_hedge_cost(self, notional, tenor,
                                          recommended_ratio(market_view))
             IN  IF hedge_details.status # "ok" THEN hedge_details
                 ELSE recommendation(self, hedge_info.value.Forward_Rate,
                                     hedge_details.value, tenor, market_view)

(* The first calculate_hedge_cost runs at the default hedge_ratio of 1.0;  *)
(* an exception of either call ends the call.                              *)
generate_hedge_recommendation(self, notional, tenor, market_view) ==
    LET hedge_info == calculate_hedge_cost(self, notional, tenor, RatioScale)
    IN  IF hedge_info.status # "ok" THEN hedge_info
        ELSE LET hedge_details ==
                     calculate_hedge_cost(self, notional, tenor,
                                          recommended_ratio(market_view))
             IN  IF hedge_details.status # "ok" THEN hedge_details
                 ELSE recommendation(self, hedge_info.value.Forward_Rate,
                                     hedge_details.value, tenor, market_view)

(***************************************************************************)
(* One HedgingAnalyzer and its callers.  Init is the state after           *)
(* HedgingAnalyzer(curve) for a curve the program builds; a caller invokes *)
(* a method with arguments of its choice once the call before has          *)
(* returned, and the step of that method returns its result.               *)
(***************************************************************************)
ClockAt(n, day) == [i \in 1..n |-> day]

InitCurves ==
    { Fetcher_build_forward_curve(Pair("USD", "CAD"), 143200,
                                  ClockAt(Len(Fetcher_tenors), 0)).value,
      Simulator_build_forward_curve(Pair("EUR", "USD"), 105450,
                                    ClockAt(Len(Simulator_tenors), 0)).value,
      sample_curve }

(* Notionals 5,000,000, 0 and -1,000. *)
Notionals == {5000000, 0, -1000}

TenorArgs == {"Spot", "6M", "2Y", "6m"}

(* Hedge ratios -0.5, 0, 0.75, 1 and 1.5. *)
HedgeRatios == {-50, 0, 75, 100, 150}

(* Scenario spots 1.3200 and 1.5000. *)
ScenarioSpots == {13200000, 15000000}

ScenarioArgs ==
    {None} \cup {Some(l) : l \in UNION {[1..n -> ScenarioSpots] : n \in 0..MaxScenarios}}

HedgeCostCalls ==
    [op : {"calculate_hedge_cost"}, notional : Notionals, tenor : TenorArgs,
     hedge_ratio : HedgeRatios]

ScenarioCalls ==
    [op : {"scenario_analysis"}, notional : Notionals, tenor : TenorArgs,
     hedge_ratio : HedgeRatios, spot_scenarios : ScenarioArgs]

CompareCalls ==
    [op : {"compare_hedge_ratios"}, notional : Notionals, tenor : TenorArgs,
     future_spot : ScenarioSpots]

(* 'bullish', 'BULLISH', 'Bearish', 'bearish', 'neutral', 'unknownvalue'   *)
(* and the empty string.                                                   *)
MarketViews ==
    { bullish,
      <<"B", "U", "L", "L", "I", "S", "H">>,
      <<"B", "e", "a", "r", "i", "s", "h">>,
      bearish,
      neutral,
      <<"u", "n", "k", "n", "o", "w", "n", "v", "a", "l", "u", "e">>,
      <<>> }

RecommendationCalls ==
    [op : {"generate_hedge_recommendation"}, notional : Notionals, tenor : TenorArgs,
     market_view : MarketViews]

Idle == [status |-> "idle", value |-> 0]

Init ==
    /\ today = 0
    /\ analyzer \in {HedgingAnalyzer_init(curve) : curve \in InitCurves}
    /\ call = [op |-> "none"]
    /\ ret = Idle

Invoke ==
    /\ ret.status # "pending"
    /\ call' \in HedgeCostCalls \cup ScenarioCalls \cup CompareCalls \cup RecommendationCalls
    /\ ret' = NoCall
    /\ UNCHANGED <<today, analyzer>>

CalculateHedgeCost ==
    /\ call.op = "calculate_hedge_cost"
    /\ ret = NoCall
    /\ ret' = calculate_hedge_cost(analyzer, call.notional, call.tenor, call.hedge_ratio)
    /\ UNCHANGED <<today, analyzer, call>>

(* A faulty scenario_analysis step: the rows selected for the tenor are     *)
(* stored back into self.forward_curve.                                    *)
ScenarioAnalysis_StoresSelection ==
    /\ call.op = "scenario_analysis"
    /\ ret = NoCall
    /\ ret' = scenario_analysis(analyzer, call.notional, call.tenor, call.hedge_ratio,
                                call.spot_scenarios)
    /\ analyzer' = IF ret'.status = "ok"
                   THEN [analyzer EXCEPT !.forward_curve =
                            LET IsTenor(row) == row.Tenor \in {"Spot", call.tenor}
                            IN  SelectSeq(analyzer.forward_curve, IsTenor)]
                   ELSE analyzer
    /\ UNCHANGED <<today, call>>

ScenarioAnalysis ==
    /\ call.op = "scenario_analysis"
    /\ ret = NoCall
    /\ ret' = scenario_analysis(analyzer, call.notional, call.tenor, call.hedge_ratio,
                                call.spot_scenarios)
    /\ UNCHANGED <<today, analyzer, call>>

CompareHedgeRatios ==
    /\ call.op = "compare_hedge_ratios"
    /\ ret = NoCall
    /\ ret' = compare_hedge_ratios(analyzer, call.notional, call.tenor, call.future_spot)
    /\ UNCHANGED <<today, analyzer, call>>

GenerateHedgeRecommendation ==
    /\ call.op = "generate_hedge_recommendation"
    /\ ret = NoCall
    /\ ret' = generate_hedge_recommendation(analyzer, call.notional, call.tenor,
                                            call.market_view)
    /\ UNCHANGED <<today, analyzer, call>>

Next ==
    \/ Invoke
    \/ CalculateHedgeCost
    \/ ScenarioAnalysis
    \/ CompareHedgeRatios
    \/ GenerateHedgeRecommendation

Spec == Init /\ [][Next]_vars

(***************************************************************************)
(* Several callers of one HedgingAnalyzer.  call[c] is the frame of        *)
(* caller c: the arguments of its call, its position pc and its local      *)
(* variables; ret[c] is what its call returned.  A step of a caller is one *)
(* call of calculate_hedge_cost, which reads self, or one iteration of a   *)
(* loop; the steps of the callers interleave in any order.                 *)
(***************************************************************************)
Callers == {"c1", "c2"}

ConcurrentCalls ==
    {a \in HedgeCostCalls \cup ScenarioCalls \cup CompareCalls \cup RecommendationCalls :
        /\ a.notional = 5000000
        /\ a.tenor \in {"6M", "2Y"}
        /\ a.op \in {"calculate_hedge_cost", "scenario_analysis"} => a.hedge_ratio \in {0, 75}
        /\ a.op = "scenario_analysis" => a.spot_scenarios \in {None, Some(<<13200000>>)}
        /\ a.op = "compare_hedge_ratios" => a.future_spot = 13200000
        /\ a.op = "generate_hedge_recommendation" => a.market_view \in {bullish, neutral}}

Frame(args) ==
    [args |-> args, pc |-> "start", hedge_info |-> None, hedge_details |-> None,
     spot_scenarios |-> <<>>, i |-> 1, results |-> <<>>]

NoFrame == [args |-> [op |-> "none"], pc |-> "done"]

(* A faulty analyzer that keeps hedge_info on self: a caller reads what    *)
(* another caller stored there, when one has.                              *)
HedgeInfoOf_OnSelf(c) ==
    IF \E d \in Callers \ {c} : call[d].pc \in {"rows", "row", "details", "format"}
    THEN call[CHOOSE d \in Callers \ {c} :
                 call[d].pc \in {"rows", "row", "details", "format"}].hedge_info
    ELSE call[c].hedge_info

(* The local variable hedge_info of caller c. *)
HedgeInfoOf(c) == call[c].hedge_info

InitConcurrent ==
    /\ today = 0
    /\ analyzer \in {HedgingAnalyzer_init(curve) : curve \in InitCurves}
    /\ call = [c \in Callers |-> NoFrame]
    /\ ret = [c \in Callers |-> Idle]

Return(c, result) ==
    /\ ret' = [ret EXCEPT ![c] = result]
    /\ call' = [call EXCEPT ![c].pc = "done"]

Start(c) ==
    /\ ret[c].status # "pending"
    /\ \E args \in ConcurrentCalls : call' = [call EXCEPT ![c] = Frame(args)]
    /\ ret' = [ret EXCEPT ![c] = NoCall]
    /\ UNCHANGED <<today, analyzer>>

StepCalculateHedgeCost(c) ==
    /\ call[c].args.op = "calculate_hedge_cost" /\ call[c].pc = "start"
    /\ Return(c, calculate_hedge_cost(analyzer, call[c].args.notional, call[c].args.tenor,
                                      call[c].args.hedge_ratio))
    /\ UNCHANGED <<today, analyzer>>

(* scenario_analysis, lines 86-98: hedge_info and the list of scenarios. *)
StepScenarioHedgeInfo(c) ==
    /\ call[c].args.op = "scenario_analysis" /\ call[c].pc = "start"
    /\ LET hedge_info == calculate_hedge_cost(analyzer, call[c].args.notional,
                                              call[c].args.tenor, call[c].args.hedge_ratio)
       IN  IF hedge_info.status # "ok" THEN Return(c, hedge_info)
           ELSE /\ call' = [call EXCEPT
                      ![c].hedge_info = hedge_info.value,
                      ![c].spot_scenarios =
                          IF call[c].args.spot_scenarios.is_none
                          THEN default_scenarios(hedge_info.value.Spot_Rate)
                          ELSE call[c].args.spot_scenarios.list,
                      ![c].pc = "rows"]
                /\ UNCHANGED ret
    /\ UNCHANGED <<today, analyzer>>

(* scenario_analysis, lines 102-128: one iteration of the loop. *)
StepScenarioRow(c) ==
    /\ call[c].args.op = "scenario_analysis" /\ call[c].pc = "rows"
    /\ call[c].i <= Len(call[c].spot_scenarios)
    /\ call' = [call EXCEPT
          ![c].results = Append(@, scenario_row(HedgeInfoOf(c), call[c].args.notional,
                                                call[c].args.hedge_ratio,
                                                call[c].spot_scenarios[call[c].i])),
          ![c].i = @ + 1]
    /\ UNCHANGED <<today, analyzer, ret>>

(* scenario_analysis, line 130. *)
StepScenarioReturn(c) ==
    /\ call[c].args.op = "scenario_analysis" /\ call[c].pc = "rows"
    /\ call[c].i > Len(call[c].spot_scenarios)
    /\ Return(c, Ok(call[c].results))
    /\ UNCHANGED <<today, analyzer>>

(* compare_hedge_ratios, lines 148-151: the call of scenario_analysis for  *)
(* the i-th ratio, up to its hedge_info.                                   *)
StepCompareHedgeInfo(c) ==
    /\ call[c].args.op = "compare_hedge_ratios" /\ call[c].pc = "start"
    /\ call[c].i <= Len(hedge_ratios)
    /\ LET hedge_info == calculate_hedge_cost(analyzer, call[c].args.notional,
                                              call[c].args.tenor, hedge_ratios[call[c].i])
       IN  IF hedge_info.status # "ok" THEN Return(c, hedge_info)
           ELSE /\ call' = [call EXCEPT ![c].hedge_info = hedge_info.value,
                                        ![c].pc = "row"]
                /\ UNCHANGED ret
    /\ UNCHANGED <<today, analyzer>>

(* compare_hedge_ratios, lines 148-159: the single row of that             *)
(* scenario_analysis and the summary row appended.                         *)
StepCompareRow(c) ==
    /\ call[c].args.op = "compare_hedge_ratios" /\ call[c].pc = "row"
    /\ LET ratio == hedge_ratios[call[c].i]
           scenario_df == <<scenario_row(HedgeInfoOf(c), call[c].args.notional, ratio,
                                         call[c].args.future_spot)>>
       IN  call' = [call EXCEPT
              ![c].results = Append(@,
                  [Hedge_Ratio |-> PercentLabel(ratio),
                   Hedged_Amount |-> call[c].args.notional * ratio,
                   Unhedged_Amount |-> call[c].args.notional * (RatioScale - ratio),
                   Total_PnL |-> scenario_df[1].Total_PnL,
                   Effective_Rate |-> scenario_df[1].Effective_Rate]),
              ![c].i = @ + 1,
              ![c].pc = "start"]
    /\ UNCHANGED <<today, analyzer, ret>>

(* compare_hedge_ratios, line 161. *)
StepCompareReturn(c) ==
    /\ call[c].args.op = "compare_hedge_ratios" /\ call[c].pc = "start"
    /\ call[c].i > Len(hedge_ratios)
    /\ Return(c, Ok(call[c].results))
    /\ UNCHANGED <<today, analyzer>>

(* generate_hedge_recommendation, lines 175-177. *)
StepRecommendationHedgeInfo(c) ==
    /\ call[c].args.op = "generate_hedge_recommendation" /\ call[c].pc = "start"
    /\ LET hedge_info == calculate_hedge_cost(analyzer, call[c].args.notional,
                                              call[c].args.tenor, RatioScale)
       IN  IF hedge_info.status # "ok" THEN Return(c, hedge_info)
           ELSE /\ call' = [call EXCEPT ![c].hedge_info = hedge_info.value,
                                        ![c].pc = "details"]
                /\ UNCHANGED ret
    /\ UNCHANGED <<today, analyzer>>

(* generate_hedge_recommendation, lines 180-196. *)
StepRecommendationDetails(c) ==
    /\ call[c].args.op = "generate_hedge_recommendation" /\ call[c].pc = "details"
    /\ LET hedge_details ==
               calculate_hedge_cost(analyzer, call[c].args.notional, call[c].args.tenor,
                                    recommended_ratio(call[c].args.market_view))
       IN  IF hedge_details.status # "ok" THEN Return(c, hedge_details)
           ELSE /\ call' = [call EXCEPT ![c].hedge_details = hedge_details.value,
                                        ![c].pc = "format"]
                /\ UNCHANGED ret
    /\ UNCHANGED <<today, analyzer>>

(* generate_hedge_recommendation, lines 198-204. *)
StepRecommendationReturn(c) ==
    /\ call[c].args.op = "generate_hedge_recommendation" /\ call[c].pc = "format"
    /\ Return(c, recommendation(analyzer, HedgeInfoOf(c).Forward_Rate,
                                call[c].hedge_details, call[c].args.tenor,
                                call[c].args.market_view))
    /\ UNCHANGED <<today, analyzer>>

NextConcurrent ==
    \E c \in Callers :
        \/ Start(c)
        \/ StepCalculateHedgeCost(c)
        \/ StepScenarioHedgeInfo(c)
        \/ StepScenarioRow(c)
        \/ StepScenarioReturn(c)
        \/ StepCompareHedgeInfo(c)
        \/ StepCompareRow(c)
        \/ StepCompareReturn(c)
        \/ StepRecommendationHedgeInfo(c)
        \/ StepRecommendationDetails(c)
        \/ StepRecommendationReturn(c)

SpecConcurrent == InitConcurrent /\ [][NextConcurrent]_vars

(***************************************************************************)
(* Properties of the builders, checked under SpecBuilder.                  *)
(***************************************************************************)
RateReturned == call.op = "calculate_forward_rate" /\ ret.status # "pending"

RateOk == call.op = "calculate_forward_rate" /\ ret.status = "ok"

CurveReturned == call.op = "build_forward_curve" /\ ret.status # "pending"

CurveOk == call.op = "build_forward_curve" /\ ret.status = "ok"

InterestRatesOf(cls) ==
    IF cls = "FXDataFetcher" THEN Fetcher_interest_rates ELSE Simulator_interest_rates

CalculateOf(cls, spot_rate, domestic_rate, foreign_rate, days) ==
    IF cls = "FXDataFetcher"
    THEN Fetcher_calculate_forward_rate(spot_rate, domestic_rate, foreign_rate, days)
    ELSE Simulator_calculate_forward_rate(spot_rate, domestic_rate, foreign_rate, days)

SpotRows(curve) == {i \in DOMAIN curve : curve[i].Tenor = "Spot"}

(* C1: a built curve has a Spot row, and its Forward_Rate is the input      *)
(* spot_rate itself, not rounded, and its Forward_Points is 0.              *)
C1_SpotRowCopiesSpot ==
    CurveOk =>
        /\ SpotRows(ret.value) # {}
        /\ \A i \in SpotRows(ret.value) :
              /\ ret.value[i].Forward_Rate = call.spot_rate
              /\ ret.value[i].Forward_Points = 0

(* A curve built from 1.23456, which round(x, 4) would change. *)
C1_Witness ==
    /\ CurveOk
    /\ call.spot_rate = 123456
    /\ ret.value[1].Tenor = "Spot"
    /\ ret.value[1].Forward_Rate = 123456

(* C2: every non-Spot row of a curve for BASE/QUOTE is computed with        *)
(* domestic = USD's rate and foreign = BASE's rate when QUOTE is USD, and   *)
(* with domestic = QUOTE's rate and foreign = USD's rate otherwise.         *)
C2_DirectionRule ==
    CurveOk =>
        LET table == InterestRatesOf(call.cls)
            base  == Ccy(call.pair[1])
            quote == Ccy(call.pair[3])
            dom   == IF quote = Ccy("USD") THEN table[Ccy("USD")] ELSE table[quote]
            for   == IF quote = Ccy("USD") THEN table[base] ELSE table[Ccy("USD")]
        IN  /\ {Ccy("USD"), IF quote = Ccy("USD") THEN base ELSE quote} \subseteq DOMAIN table
            /\ \A i \in DOMAIN ret.value :
                  ret.value[i].Tenor # "Spot" =>
                     ret.value[i].Forward_Rate =
                         CalculateOf(call.cls, call.spot_rate, dom, for, ret.value[i].Days).value

(* EUR/USD at 1.0545: USD 4.50% against EUR 3.00% puts the 1Y forward at    *)
(* 1.0699; the rates the other way round would put it below spot.           *)
C2_Witness ==
    /\ CurveOk
    /\ call.pair = Pair("EUR", "USD")
    /\ call.spot_rate = 105450
    /\ ret.value[8].Tenor = "1Y"
    /\ ret.value[8].Forward_Rate = 106990

(* C3: calculate_forward_rate returns spot * (1 + domestic*t) / (1 +        *)
(* foreign*t), t = days/365, rounded to 4 decimals: the result is a multiple *)
(* of 0.0001 no further than 0.00005 from the exact quotient.  1.4320 with  *)
(* 3.75% against 4.50% over 180 days gives 1.4268, and the 6M row of the    *)
(* USD/CAD curve built from 1.4320 has -52.0 forward points.                *)
C3_ForwardRateFormula ==
    /\ RateOk =>
          LET num == DaysPerYear * RateScale + call.domestic_rate * call.days
              den == DaysPerYear * RateScale + call.foreign_rate * call.days
              d   == Abs(den) * Round4Step
              x   == QR(call.spot_rate * Sgn(den), num, d)
              v   == ret.value \div Round4Step
          IN  /\ ret.value % Round4Step = 0
              /\ v \in {x[1], x[1] + 1}
              /\ v = x[1] => 2 * x[2] <= d
              /\ v = x[1] + 1 => 2 * x[2] >= d
    /\ ( /\ RateOk
         /\ call.spot_rate = 143200 /\ call.domestic_rate = 375
         /\ call.foreign_rate = 450 /\ call.days = 180 ) => ret.value = 142680
    /\ ( /\ CurveOk
         /\ call.pair = Pair("USD", "CAD") /\ call.spot_rate = 143200 ) =>
          \A i \in DOMAIN ret.value :
             ret.value[i].Tenor = "6M" =>
                ret.value[i].Forward_Rate = 142680 /\ ret.value[i].Forward_Points = -5200

C3_Witness ==
    /\ RateOk
    /\ call.spot_rate = 143200 /\ call.domestic_rate = 375
    /\ call.foreign_rate = 450 /\ call.days = 180
    /\ ret.value = 142680

(* C4, as stated: with equal domestic and foreign rate the call returns     *)
(* exactly spot, for any spot, any rate and any number of days.             *)
C4_EqualRatesReturnSpot_AsStated ==
    (RateReturned /\ call.domestic_rate = call.foreign_rate) =>
        ret.status = "ok" /\ ret.value = call.spot_rate

(* C4, amended: with equal domestic and foreign rate r, 1 + r*days/365      *)
(* not 0, and a spot that is a multiple of 0.0001, the call returns spot.   *)
C4_EqualRatesReturnSpot ==
    ( /\ RateReturned
      /\ call.domestic_rate = call.foreign_rate
      /\ DaysPerYear * RateScale + call.foreign_rate * call.days # 0
      /\ call.spot_rate % Round4Step = 0 ) =>
        ret.status = "ok" /\ ret.value = call.spot_rate

C4_Witness ==
    /\ RateOk
    /\ call.domestic_rate = 450 /\ call.foreign_rate = 450
    /\ call.days = 180 /\ call.spot_rate = 143200
    /\ ret.value = 143200

(* C5, as stated: for positive spot and days > 0 the forward is strictly    *)
(* above spot when domestic > foreign and strictly below when domestic <    *)
(* foreign.                                                                 *)
C5_PremiumSign_AsStated ==
    (RateReturned /\ call.spot_rate > 0 /\ call.days > 0) =>
        /\ call.domestic_rate > call.foreign_rate =>
              ret.status = "ok" /\ ret.value > call.spot_rate
        /\ call.domestic_rate < call.foreign_rate =>
              ret.status = "ok" /\ ret.value < call.spot_rate

(* C5, amended: for a positive spot that is a multiple of 0.0001, days > 0  *)
(* and 1 + foreign*days/365 > 0, the forward is not below spot when         *)
(* domestic > foreign and not above spot when domestic < foreign.           *)
C5_PremiumSign ==
    ( /\ RateReturned
      /\ call.spot_rate > 0 /\ call.days > 0
      /\ call.spot_rate % Round4Step = 0
      /\ DaysPerYear * RateScale + call.foreign_rate * call.days > 0 ) =>
        /\ ret.status = "ok"
        /\ call.domestic_rate > call.foreign_rate => ret.value >= call.spot_rate
        /\ call.domestic_rate < call.foreign_rate => ret.value <= call.spot_rate

(* 4.75% against 4.50% over one day on 1.4320: a premium of 0.00001, which  *)
(* the rounding to 4 decimals removes.                                      *)
C5_Witness ==
    /\ RateOk
    /\ call.spot_rate = 143200 /\ call.days = 1
    /\ call.domestic_rate = 475 /\ call.foreign_rate = 450
    /\ ret.value = 143200

(* C6: a built curve has exactly eight rows, Spot, 1W, 1M, 2M, 3M, 6M, 9M,  *)
(* 1Y in that order, with Days 0, 7, 30, 60, 90, 180, 270, 365, and every   *)
(* row carries the input pair.                                              *)
C6_EightRowsInOrder ==
    CurveOk =>
        /\ Len(ret.value) = 8
        /\ [i \in 1..8 |-> ret.value[i].Tenor]
              = <<"Spot", "1W", "1M", "2M", "3M", "6M", "9M", "1Y">>
        /\ [i \in 1..8 |-> ret.value[i].Days] = <<0, 7, 30, 60, 90, 180, 270, 365>>
        /\ \A i \in 1..7 : ret.value[i].Days < ret.value[i + 1].Days
        /\ \A i \in 1..8 : ret.value[i].Pair = call.pair

C6_Witness ==
    /\ CurveOk
    /\ call.cls = "FXDataSimulator"
    /\ call.pair = Pair("GBP", "USD")
    /\ Len(ret.value) = 8
    /\ ret.value[8].Tenor = "1Y"

(* C7: build_forward_curve fails with the unknown-currency error (KeyError) *)
(* whenever the base or the quote of the pair is not in the rate table.     *)
C7_UnknownCurrencyFails ==
    ( /\ CurveReturned
      /\ Len(call.pair) = 3
      /\ \/ Ccy(call.pair[1]) \notin DOMAIN InterestRatesOf(call.cls)
         \/ Ccy(call.pair[3]) \notin DOMAIN InterestRatesOf(call.cls) ) =>
        ret.status = "KeyError"

(***************************************************************************)
(* Properties of HedgingAnalyzer, checked under Spec.                      *)
(***************************************************************************)
HedgeCostReturned == call.op = "calculate_hedge_cost" /\ ret.status \notin {"pending", "idle"}

HedgeCostOk == call.op = "calculate_hedge_cost" /\ ret.status = "ok"

ScenarioOk == call.op = "scenario_analysis" /\ ret.status = "ok"

TenorLabels == {analyzer.forward_curve[i].Tenor : i \in DOMAIN analyzer.forward_curve}

CurveRate(label) ==
    LET i == CHOOSE j \in DOMAIN analyzer.forward_curve :
                 analyzer.forward_curve[j].Tenor = label
    IN  analyzer.forward_curve[i].Forward_Rate

(* v is the quotient x = <<q, r>> over d rounded to an integer: a nearest   *)
(* integer, either one when x lies halfway.                                 *)
IsRounded(v, x, d) ==
    \/ v = x[1] /\ 2 * x[2] <= d
    \/ v = x[1] + 1 /\ 2 * x[2] >= d

(* C8: calculate_hedge_cost raises the tenor-not-found error (ValueError),  *)
(* returning nothing, exactly when no row of the stored curve carries the   *)
(* requested tenor label; for a label the curve has it returns a HedgeInfo  *)
(* for that tenor.                                                          *)
C8_TenorNotFound ==
    HedgeCostReturned =>
        /\ ret.status = "ValueError" <=> call.tenor \notin TenorLabels
        /\ call.tenor \in TenorLabels => ret.status = "ok" /\ ret.value.Tenor = call.tenor
        /\ ret.status # "ok" => ret.value = 0

(* The label '6m' is not '6M': the lookup compares labels exactly. *)
C8_Witness ==
    /\ HedgeCostReturned
    /\ call.tenor = "6m"
    /\ "6M" \in TenorLabels
    /\ ret.status = "ValueError"

C10_ScenarioPnL ==
    /\ ScenarioOk =>
          LET forward_rate == CurveRate(call.tenor) * ScenStep
              current_spot == CurveRate("Spot") * ScenStep
              hedged_amount   == call.notional * call.hedge_ratio
              unhedged_amount == call.notional * (RatioScale - call.hedge_ratio)
              scenarios == IF call.spot_scenarios.is_none
                           THEN default_scenarios(CurveRate("Spot"))
                           ELSE call.spot_scenarios.list
          IN  /\ Len(ret.value) = Len(scenarios)
              /\ \A i \in DOMAIN ret.value :
                    LET S == scenarios[i]
                        h == QR(hedged_amount, S - forward_rate, ScenScale)
                        u == QR(unhedged_amount, S - current_spot, ScenScale)
                    IN  /\ IsRounded(ret.value[i].Hedged_PnL, h, ScenScale)
                        /\ IsRounded(ret.value[i].Unhedged_PnL, u, ScenScale)
                        /\ IsRounded(ret.value[i].Total_PnL, QRAdd(h, u, ScenScale), ScenScale)
    /\ ( /\ ScenarioOk
         /\ analyzer.pair = Pair("USD", "CAD") /\ CurveRate("Spot") = 143200
         /\ call.notional = 5000000 /\ call.hedge_ratio = 75 /\ call.tenor = "6M"
         /\ call.spot_scenarios = Some(<<13200000>>) ) =>
           /\ CurveRate("6M") = 142680
           /\ ret.value[1].Hedged_PnL = -40050000
           /\ ret.value[1].Unhedged_PnL = -14000000
           /\ ret.value[1].Total_PnL = -54050000

C10_Witness ==
    /\ ScenarioOk
    /\ CurveRate("Spot") = 143200
    /\ call.notional = 5000000 /\ call.hedge_ratio = 75 /\ call.tenor = "6M"
    /\ call.spot_scenarios = Some(<<13200000>>)
    /\ ret.value[1].Hedged_PnL = -40050000
    /\ ret.value[1].Total_PnL = -54050000

(* The scenario spots a scenario_analysis call works on. *)
ScenariosOfCall ==
    IF call.spot_scenarios.is_none
    THEN << (CurveRate("Spot") * ScenStep * 90) \div Percent,
            (CurveRate("Spot") * ScenStep * 95) \div Percent,
            CurveRate("Spot") * ScenStep,
            (CurveRate("Spot") * ScenStep * 105) \div Percent,
            (CurveRate("Spot") * ScenStep * 110) \div Percent >>
    ELSE call.spot_scenarios.list

(* C11: for every notional, tenor of the curve and scenario list,           *)
(* scenario_analysis at hedge_ratio 1.0 reports Unhedged_PnL = 0 in every   *)
(* row, and at hedge_ratio 0.0 reports Hedged_PnL = 0 in every row.         *)
C11_FullAndNoHedge ==
    ScenarioOk =>
        /\ call.hedge_ratio = RatioScale =>
              \A i \in DOMAIN ret.value : ret.value[i].Unhedged_PnL = 0
        /\ call.hedge_ratio = 0 =>
              \A i \in DOMAIN ret.value : ret.value[i].Hedged_PnL = 0

(* Fully hedged 5,000,000 with the spot at 1.3200: the hedged leg loses,    *)
(* the unhedged leg is nil.                                                 *)
C11_Witness ==
    /\ ScenarioOk
    /\ call.hedge_ratio = RatioScale /\ call.notional = 5000000
    /\ call.spot_scenarios = Some(<<13200000>>)
    /\ ret.value[1].Unhedged_PnL = 0
    /\ ret.value[1].Hedged_PnL < 0

(* C12: in every scenario_analysis row Effective_Rate, a rate rounded to 4  *)
(* decimals, is forward_rate * hedge_ratio + S * (1 - hedge_ratio) when     *)
(* notional > 0 and S when notional <= 0, whatever the hedge_ratio.         *)
C12_EffectiveRate ==
    ScenarioOk =>
        \A i \in DOMAIN ret.value :
            LET S == ScenariosOfCall[i]
                grid == ScenScale \div Round4Scale
                blended == QRAdd(QR(CurveRate(call.tenor) * ScenStep, call.hedge_ratio,
                                    RatioScale * grid),
                                 QR(S, RatioScale - call.hedge_ratio, RatioScale * grid),
                                 RatioScale * grid)
                v == ret.value[i].Effective_Rate
            IN  /\ v % Round4Step = 0
                /\ call.notional > 0 => IsRounded(v \div Round4Step, blended, RatioScale * grid)
                /\ call.notional <= 0 => IsRounded(v \div Round4Step, QR(S, 1, grid), grid)
                /\ call.notional <= 0 /\ S % grid = 0 => v * ScenStep = S

(* A notional of 0 at ratio 0.75 on the 6M forward: the rate is the         *)
(* scenario spot 1.3200, not the blend with the forward.                    *)
C12_Witness ==
    /\ ScenarioOk
    /\ call.notional = 0 /\ call.hedge_ratio = 75 /\ call.tenor = "6M"
    /\ call.spot_scenarios = Some(<<13200000>>)
    /\ CurveRate("6M") # 132000
    /\ ret.value[1].Effective_Rate = 132000

(* C13: without spot_scenarios, scenario_analysis returns exactly five      *)
(* rows, for the future spots current_spot * 0.90, 0.95, 1.00, 1.05, 1.10   *)
(* in that order, so that Spot_Change_pct reads -10, -5, 0, +5, +10.        *)
C13_DefaultScenarios ==
    ( ScenarioOk /\ call.spot_scenarios.is_none ) =>
        LET factors == <<90, 95, 100, 105, 110>>
        IN  /\ Len(ret.value) = 5
            /\ \A i \in 1..5 :
                  /\ ret.value[i].Spot_Change_pct = (factors[i] - Percent) * Round2Scale
                  /\ ret.value[i].Future_Spot % Round4Step = 0
                  /\ IsRounded(ret.value[i].Future_Spot \div Round4Step,
                               QR(CurveRate("Spot"), factors[i], Percent * Round4Step),
                               Percent * Round4Step)

(* On a spot of 1.4320 the first default row is 1.2888, at -10%. *)
C13_Witness ==
    /\ ScenarioOk /\ call.spot_scenarios.is_none
    /\ CurveRate("Spot") = 143200
    /\ Len(ret.value) = 5
    /\ ret.value[1].Future_Spot = 128880
    /\ ret.value[1].Spot_Change_pct = -1000
    /\ ret.value[5].Spot_Change_pct = 1000

(* C14: with spot_scenarios supplied, scenario_analysis returns one row per *)
(* element of the list, in the order of the list: row i is the row of       *)
(* element i, duplicates are kept, and an empty list gives no row.          *)
C14_OneRowPerScenario ==
    ( ScenarioOk /\ ~call.spot_scenarios.is_none ) =>
        LET list == call.spot_scenarios.list
        IN  /\ Len(ret.value) = Len(list)
            /\ \A i \in DOMAIN list :
                  /\ ret.value[i].Future_Spot * ScenStep = list[i]
                  /\ ret.value[i] =
                        scenario_analysis(analyzer, call.notional, call.tenor,
                                          call.hedge_ratio, Some(<<list[i]>>)).value[1]

(* The list [1.5000, 1.3200] gives the rows of 1.5000 and 1.3200. *)
C14_Witness ==
    /\ ScenarioOk
    /\ call.spot_scenarios = Some(<<15000000, 13200000>>)
    /\ Len(ret.value) = 2
    /\ ret.value[1].Future_Spot = 150000
    /\ ret.value[2].Future_Spot = 132000

CompareReturned == call.op = "compare_hedge_ratios" /\ ret.status \notin {"pending", "idle"}

CompareOk == call.op = "compare_hedge_ratios" /\ ret.status = "ok"

RecommendationReturned ==
    call.op = "generate_hedge_recommendation" /\ ret.status \notin {"pending", "idle"}

RecommendationOk == call.op = "generate_hedge_recommendation" /\ ret.status = "ok"

(* C15: compare_hedge_ratios returns, for any tenor of the curve, exactly   *)
(* five rows, one per ratio 0.0, 0.25, 0.50, 0.75, 1.0 in increasing order, *)
(* labelled "0%", "25%", "50%", "75%", "100%", each with Hedged_Amount =    *)
(* notional * ratio and Unhedged_Amount = notional * (1 - ratio).           *)
C15_FiveRatioRows ==
    ( CompareReturned /\ call.tenor \in TenorLabels ) =>
        LET grid   == <<0, 25, 50, 75, 100>>
            labels == << <<"0", "%">>, <<"25", "%">>, <<"50", "%">>,
                         <<"75", "%">>, <<"100", "%">> >>
        IN  /\ ret.status = "ok"
            /\ Len(ret.value) = 5
            /\ \A i \in 1..5 :
                  /\ ret.value[i].Hedge_Ratio = labels[i]
                  /\ ret.value[i].Hedged_Amount = call.notional * grid[i]
                  /\ ret.value[i].Unhedged_Amount = call.notional * (RatioScale - grid[i])

(* 5,000,000: the second row is "25%" with 1,250,000 hedged and 3,750,000   *)
(* unhedged.                                                                *)
C15_Witness ==
    /\ CompareOk
    /\ call.notional = 5000000
    /\ ret.value[2].Hedge_Ratio = <<"25", "%">>
    /\ ret.value[2].Hedged_Amount = 125000000
    /\ ret.value[2].Unhedged_Amount = 375000000

(* C16: for every notional, tenor and future_spot, Total_PnL and            *)
(* Effective_Rate of the compare_hedge_ratios row of ratio r are those of   *)
(* the single row of scenario_analysis(notional, tenor, r, [future_spot]),  *)
(* for r = 0.0 and r = 1.0 in particular.                                   *)
C16_CompareIsScenario ==
    CompareOk =>
        LET grid == <<0, 25, 50, 75, 100>>
        IN  \A i \in 1..5 :
               LET df == scenario_analysis(analyzer, call.notional, call.tenor, grid[i],
                                           Some(<<call.future_spot>>))
               IN  /\ df.status = "ok"
                   /\ Len(df.value) = 1
                   /\ i \in DOMAIN ret.value
                   /\ ret.value[i].Total_PnL = df.value[1].Total_PnL
                   /\ ret.value[i].Effective_Rate = df.value[1].Effective_Rate

(* USD/CAD from 1.4320, 5,000,000 on 6M with the spot at 1.3200: -560,000   *)
(* unhedged, -540,500 at 75% and -534,000 fully hedged.                     *)
C16_Witness ==
    /\ CompareOk
    /\ CurveRate("Spot") = 143200
    /\ call.notional = 5000000 /\ call.tenor = "6M" /\ call.future_spot = 13200000
    /\ ret.value[1].Total_PnL = -56000000
    /\ ret.value[4].Total_PnL = -54050000
    /\ ret.value[5].Total_PnL = -53400000
    /\ ret.value[5].Effective_Rate = 142680

(* C17: generate_hedge_recommendation takes the ratio from market_view,     *)
(* compared without regard to case: "bullish" 0.50, "bearish" 1.00, any     *)
(* other string 0.75.  No market_view makes the call fail, and              *)
(* Hedge_Details is the HedgeInfo computed at exactly that ratio.           *)
C17_RecommendationTable ==
    LET Bullish == {bullish, <<"B", "U", "L", "L", "I", "S", "H">>}
        Bearish == {bearish, <<"B", "e", "a", "r", "i", "s", "h">>}
        ratio   == IF call.market_view \in Bullish THEN 50
                   ELSE IF call.market_view \in Bearish THEN 100
                   ELSE 75
    IN  /\ RecommendationReturned => (ret.status = "ok" <=> call.tenor \in TenorLabels)
        /\ RecommendationOk =>
              /\ ret.value.Hedge_Details.Hedge_Ratio = ratio
              /\ ret.value.Hedge_Details =
                    calculate_hedge_cost(analyzer, call.notional, call.tenor, ratio).value
              /\ ret.value.Hedge_Details.Hedged_Amount = call.notional * ratio
              /\ ret.value.Recommendation = <<ToString(ratio), "% Hedge Ratio">>

(* 'BULLISH' in capitals gives the 50% hedge. *)
C17_Witness ==
    /\ RecommendationOk
    /\ call.market_view = <<"B", "U", "L", "L", "I", "S", "H">>
    /\ call.notional = 5000000
    /\ ret.value.Hedge_Details.Hedge_Ratio = 50
    /\ ret.value.Hedge_Details.Hedged_Amount = 250000000

(* C18: no call of calculate_hedge_cost, scenario_analysis,                 *)
(* compare_hedge_ratios or generate_hedge_recommendation, successful or     *)
(* failing, changes the analyzer's stored curve or its pair, and the pair   *)
(* is the Pair of the curve's first row.                                    *)
C18_AnalyzerUnchanged ==
    /\ [](analyzer.pair = analyzer.forward_curve[1].Pair)
    /\ [][analyzer' = analyzer]_vars

(* A failed call behind it, the analyzer is as constructed. *)
C18_Witness ==
    /\ ret.status = "ValueError"
    /\ call.op = "compare_hedge_ratios"
    /\ analyzer \in {HedgingAnalyzer_init(curve) : curve \in InitCurves}
    /\ Len(analyzer.forward_curve) = 8

(***************************************************************************)
(* Purity of the builders, checked under SpecBuilder.                      *)
(***************************************************************************)
(* C20: build_forward_curve is a function of pair, spot rate and rate       *)
(* table alone: whenever it is invoked, the curve it returns is, in every   *)
(* column, Settlement_Date included, the curve that the same invocation     *)
(* returns on day 0.                                                        *)
C20_BuildIsPure ==
    CurveOk =>
        ret.value =
            IF call.cls = "FXDataFetcher"
            THEN Fetcher_build_forward_curve(call.pair, call.spot_rate,
                                             ClockAt(Len(Fetcher_tenors), 0)).value
            ELSE Simulator_build_forward_curve(call.pair, call.spot_rate,
                                               ClockAt(Len(Simulator_tenors), 0)).value

(***************************************************************************)
(* Callers of one analyzer, checked under SpecConcurrent.                  *)
(***************************************************************************)
(* The result of the call args run alone on the analyzer self. *)
RunAlone(self, args) ==
    IF args.op = "calculate_hedge_cost"
    THEN calculate_hedge_cost(self, args.notional, args.tenor, args.hedge_ratio)
    ELSE IF args.op = "scenario_analysis"
    THEN scenario_analysis(self, args.notional, args.tenor, args.hedge_ratio,
                           args.spot_scenarios)
    ELSE IF args.op = "compare_hedge_ratios"
    THEN compare_hedge_ratios(self, args.notional, args.tenor, args.future_spot)
    ELSE generate_hedge_recommendation(self, args.notional, args.tenor, args.market_view)

(* C19: with the steps of several callers of one analyzer interleaved in    *)
(* any order, and the curve mutated by nobody, each call returns what it    *)
(* returns when run alone on a fresh analyzer built from the same curve.    *)
C19_CallsIndependent ==
    \A c \in Callers :
        ( call[c].args.op # "none" /\ ret[c].status # "pending" ) =>
            /\ call[c].pc = "done"
            /\ ret[c] = RunAlone(HedgingAnalyzer_init(analyzer.forward_curve), call[c].args)

(* One caller's scenario_analysis at ratio 0 has returned its five rows     *)
(* while the other's, at ratio 0.75, is between two rows of its loop.       *)
C19_Witness ==
    \E c, d \in Callers :
        /\ c # d
        /\ call[c].args.op = "scenario_analysis" /\ call[c].args.hedge_ratio = 0
        /\ ret[c].status = "ok" /\ Len(ret[c].value) = 5
        /\ call[d].args.op = "scenario_analysis" /\ call[d].args.hedge_ratio = 75
        /\ call[d].pc = "rows" /\ call[d].i = 3
        /\ ret[d].status = "pending"

(***************************************************************************)
(* Settlement dates and the two builders, checked under SpecBuilder.       *)
(***************************************************************************)
(* C21: in every built curve each row's Settlement_Date is one analysis     *)
(* date plus the row's Days, the same analysis date for all eight rows:     *)
(* the date of the Spot row, which has Days 0.                              *)
C21_OneAnalysisDate ==
    CurveOk =>
        \A i \in DOMAIN ret.value :
            ret.value[i].Settlement_Date = ret.value[1].Settlement_Date + ret.value[i].Days

(* The dates at which the rows of a returned curve read the clock. *)
NowsOf(curve) == [i \in DOMAIN curve |-> curve[i].Settlement_Date - curve[i].Days]

(* C25: the two builders are interchangeable: their interest-rate tables    *)
(* and tenors are the same, and for every pair and spot rate the call of    *)
(* one class returns, or fails as, the call of the other class does with    *)
(* the clock read at the same instants.                                     *)
C25_BuildersInterchangeable ==
    /\ Fetcher_interest_rates = Simulator_interest_rates
    /\ Fetcher_tenors = Simulator_tenors
    /\ CurveReturned =>
          LET nows == IF ret.status = "ok" THEN NowsOf(ret.value)
                      ELSE ClockAt(Len(Fetcher_tenors), today)
          IN  ret = IF call.cls = "FXDataFetcher"
                    THEN Simulator_build_forward_curve(call.pair, call.spot_rate, nows)
                    ELSE Fetcher_build_forward_curve(call.pair, call.spot_rate, nows)

(* GBP/USD from the simulator: the 1Y row on GBP's 4.75% against USD's      *)
(* 4.50%, as the fetcher computes it.                                       *)
C25_Witness ==
    /\ CurveOk
    /\ call.cls = "FXDataSimulator"
    /\ call.pair = Pair("GBP", "USD") /\ call.spot_rate = 143200
    /\ ret.value[8].Forward_Rate =
          Fetcher_calculate_forward_rate(143200, 450, 475, 365).value
    /\ ret.value[8].Forward_Rate < 143200

(***************************************************************************)
(* More properties of HedgingAnalyzer, checked under Spec.                 *)
(***************************************************************************)
CurveRow(label) ==
    analyzer.forward_curve[CHOOSE j \in DOMAIN analyzer.forward_curve :
                               analyzer.forward_curve[j].Tenor = label]

(* C22: the HedgeInfo of calculate_hedge_cost(notional, tenor, ratio) has   *)
(* Forward_Rate, Forward_Points and Settlement_Date of the curve row of     *)
(* that tenor and Spot_Rate of the Spot row, Locked_In_Rate = Forward_Rate, *)
(* and Premium_Discount_pct = (Forward_Rate - Spot_Rate) / Spot_Rate * 100  *)
(* rounded to 4 decimals, whatever notional and ratio are.                  *)
C22_HedgeInfoFromCurve ==
    HedgeCostOk =>
        LET row  == CurveRow(call.tenor)
            spot == CurveRow("Spot").Forward_Rate
        IN  /\ ret.value.Forward_Rate = row.Forward_Rate
            /\ ret.value.Forward_Points = row.Forward_Points
            /\ ret.value.Settlement_Date = row.Settlement_Date
            /\ ret.value.Spot_Rate = spot
            /\ ret.value.Locked_In_Rate = ret.value.Forward_Rate
            /\ ret.value.Tenor = call.tenor
            /\ ret.value.Pair = analyzer.pair
            /\ IsRounded(ret.value.Premium_Discount_pct,
                         QR((row.Forward_Rate - spot) * Sgn(spot),
                            Percent * Round4Scale, Abs(spot)),
                         Abs(spot))

(* USD/CAD from 1.4320, 6M at 1.4268: a discount of 0.3631%, at a ratio     *)
(* of 1.5 on a notional of -1,000 as at any other.                          *)
C22_Witness ==
    /\ HedgeCostOk
    /\ call.tenor = "6M" /\ call.notional = -1000 /\ call.hedge_ratio = 150
    /\ ret.value.Spot_Rate = 143200 /\ ret.value.Forward_Rate = 142680
    /\ ret.value.Forward_Points = -5200
    /\ ret.value.Settlement_Date = 180
    /\ ret.value.Premium_Discount_pct = -3631

(* C23: scenario_analysis, compare_hedge_ratios and                         *)
(* generate_hedge_recommendation fail with the tenor-not-found error of     *)
(* calculate_hedge_cost (ValueError) when the curve lacks the tenor,        *)
(* returning no row and no recommendation, whatever the other arguments.    *)
C23_TenorNotFoundPropagates ==
    ( /\ call.op \in {"scenario_analysis", "compare_hedge_ratios",
                      "generate_hedge_recommendation"}
      /\ ret.status \notin {"pending", "idle"}
      /\ call.tenor \notin TenorLabels ) =>
        /\ ret = Raise("ValueError")
        /\ ret = calculate_hedge_cost(analyzer, call.notional, call.tenor, RatioScale)

C23_Witness ==
    /\ call.op = "generate_hedge_recommendation"
    /\ call.tenor = "2Y" /\ call.market_view = bullish
    /\ ret.status = "ValueError"
    /\ ret.value = 0

(* C24, as stated: in every scenario_analysis row the reported Total_PnL    *)
(* is the sum of the reported Hedged_PnL and Unhedged_PnL, for every        *)
(* notional, ratio and scenario spot.                                       *)
C24_TotalIsSumOfReported_AsStated ==
    ScenarioOk =>
        \A i \in DOMAIN ret.value :
            ret.value[i].Total_PnL = ret.value[i].Hedged_PnL + ret.value[i].Unhedged_PnL

(* C24, amended: the reported Total_PnL is within 0.01 of the sum of the    *)
(* reported Hedged_PnL and Unhedged_PnL, and is that sum when both products *)
(* are whole cents before rounding.                                         *)
C24_TotalIsSumOfReported ==
    ScenarioOk =>
        \A i \in DOMAIN ret.value :
            LET S == ScenariosOfCall[i]
                h == QR(call.notional * call.hedge_ratio,
                        S - CurveRate(call.tenor) * ScenStep, ScenScale)
                u == QR(call.notional * (RatioScale - call.hedge_ratio),
                        S - CurveRate("Spot") * ScenStep, ScenScale)
                gap == ret.value[i].Total_PnL
                         - (ret.value[i].Hedged_PnL + ret.value[i].Unhedged_PnL)
            IN  /\ gap \in {-1, 0, 1}
                /\ h[2] = 0 /\ u[2] = 0 => gap = 0

(* EUR/USD from 1.0545, -1,000 at 0.75 on 6M with the spot at 1.5000:       *)
(* -328.35 and -111.38 reported, whose sum is -439.73, and -439.72 as total. *)
C24_Witness ==
    /\ ScenarioOk
    /\ CurveRate("Spot") = 105450
    /\ call.notional = -1000 /\ call.hedge_ratio = 75 /\ call.tenor = "6M"
    /\ call.spot_scenarios = Some(<<15000000>>)
    /\ ret.value[1].Hedged_PnL = -32835
    /\ ret.value[1].Unhedged_PnL = -11138
    /\ ret.value[1].Total_PnL = -43972

====
